---- MODULE Spec2Model ----
(***************************************************************************)
(* A model of server.py: one ClientConnection thread (run, authenticate,   *)
(* the framing reader get_message / parse_buffer / recharging, the         *)
(* navigator and the sweeper) talking over one TCP connection to a client. *)
(*                                                                         *)
(* Inbound text is a sequence of byte values (ASCII codes), so that the    *)
(* framing, the length caps, the hash and the number parsing are computed  *)
(* as the code computes them.  Outbound messages are the strings handed to *)
(* send_message (which appends the terminator "\a\b" to each).             *)
(* The Python call stack is explicit: get_message calls recharging, which  *)
(* calls get_message again.                                                *)
(*                                                                         *)
(* Spec is one session with its client.  Sessions is two sessions, each    *)
(* with its own client, whose threads run in turns.  FairSpec is one       *)
(* session whose thread is scheduled fairly.                               *)
(***************************************************************************)
EXTENDS Integers, Sequences, FiniteSets, TLC

VARIABLES
    stack,      \* call stack of the session thread, outermost frame first
    ret,        \* value returned by the call that returned last
    exc,        \* the exception that was raised in the session, or "none"
    buffer,     \* self.buffer: received, not yet parsed bytes
    sent,       \* the messages passed to send_message, in order
    timeout,    \* the connection's read timeout (settimeout)
    closed,     \* number of calls of connection.close()
    wire,       \* bytes the client has sent and recv has not yet returned
    client,     \* the client's own state (the environment)
    consumed,   \* history: number of client messages get_message has taken
                \* from the buffer, the RECHARGING / FULL POWER pairs left out
    other       \* the sessions of the other connections, whose threads are
                \* not running now (the variables above are those of the
                \* session whose thread is running)

vars == <<stack, ret, exc, buffer, sent, timeout, closed, wire, client, consumed, other>>

---------------------------------------------------------------------------
(* Constants of server.py *)

SERVER_KEY == 54621
CLIENT_KEY == 45328

SERVER_MOVE         == "102 MOVE"
SERVER_TURN_LEFT    == "103 TURN LEFT"
SERVER_TURN_RIGHT   == "104 TURN RIGHT"
SERVER_PICK_UP      == "105 GET MESSAGE"
SERVER_LOGOUT       == "106 LOGOUT"
SERVER_OK           == "200 OK"
SERVER_LOGIN_FAILED == "300 LOGIN FAILED"
SERVER_SYNTAX_ERROR == "301 SYNTAX ERROR"
SERVER_LOGIC_ERROR  == "302 LOGIC ERROR"

\* "OK", "RECHARGING", "FULL POWER" as ASCII codes
CLIENT_OK         == <<79, 75>>
CLIENT_RECHARGING == <<82, 69, 67, 72, 65, 82, 71, 73, 78, 71>>
CLIENT_FULL_POWER == <<70, 85, 76, 76, 32, 80, 79, 87, 69, 82>>

CLIENT_USERNAME_MAX_LENGTH     == 12
CLIENT_CONFIRMATION_MAX_LENGTH == 7
CLIENT_OK_MAX_LENGTH           == 12
CLIENT_FULL_POWER_MAX_LENGTH   == 12
CLIENT_MESSAGE_MAX_LENGTH      == 100

TIMEOUT            == 1
TIMEOUT_RECHARGING == 5

MAX_VALUE == 65536

UP    == -1
DOWN  == -2
LEFT  == 3
RIGHT == 4

DESTINATION_SQUARE == <<-2, 2>>

\* the size argument of connection.recv
RECV_SIZE == 128

\* "\a" and "\b", the two bytes of the terminator, and " "
BEL   == 7
BS    == 8
SPACE == 32

TERMINATOR == <<BEL, BS>>

---------------------------------------------------------------------------
(* Strings *)

Min(a, b) == IF a < b THEN a ELSE b

\* substring test:  pat in s
Contains(s, pat) ==
    \E i \in 1..(Len(s) - Len(pat) + 1) : SubSeq(s, i, i + Len(pat) - 1) = pat

\* index of the first occurrence of pat in s (pat occurs in s)
IndexOf(s, pat) ==
    CHOOSE i \in 1..(Len(s) - Len(pat) + 1) :
        /\ SubSeq(s, i, i + Len(pat) - 1) = pat
        /\ \A j \in 1..(i - 1) : SubSeq(s, j, j + Len(pat) - 1) # pat

\* s.partition(sep): <<head, sep, tail>>, or <<s, "", "">> when sep is not in s
Partition(s, sep) ==
    IF Contains(s, sep)
    THEN LET i == IndexOf(s, sep)
         IN  <<SubSeq(s, 1, i - 1), sep, SubSeq(s, i + Len(sep), Len(s))>>
    ELSE <<s, <<>>, <<>>>>

\* bytes.decode("ASCII") succeeds
IsAscii(s) == \A i \in 1..Len(s) : s[i] < 128

\* characters str.split() splits on, and characters int() strips
SPLIT_WHITESPACE == {9, 10, 11, 12, 13, 28, 29, 30, 31, 32}
INT_WHITESPACE   == {9, 10, 11, 12, 13, 32}

RECURSIVE LStrip(_, _)
LStrip(s, ws) ==
    IF s # <<>> /\ s[1] \in ws THEN LStrip(Tail(s), ws) ELSE s

RECURSIVE RStrip(_, _)
RStrip(s, ws) ==
    IF s # <<>> /\ s[Len(s)] \in ws THEN RStrip(SubSeq(s, 1, Len(s) - 1), ws) ELSE s

\* length of the longest prefix of s without whitespace
RECURSIVE WordLen(_)
WordLen(s) ==
    IF s = <<>> \/ s[1] \in SPLIT_WHITESPACE THEN 0 ELSE 1 + WordLen(Tail(s))

\* s.split(maxsplit = n): at most n + 1 parts; the last part keeps its
\* trailing whitespace when the limit of splits is reached (t, the string
\* without its leading whitespace, is bound as a value, so that it is
\* computed once)
RECURSIVE Split(_, _)
Split(s, maxsplit) ==
    CHOOSE parts \in
        {IF t = <<>> THEN <<>>
         ELSE IF maxsplit = 0 THEN <<t>>
         ELSE <<SubSeq(t, 1, WordLen(t))>>
                  \o Split(SubSeq(t, WordLen(t) + 1, Len(t)), maxsplit - 1)
            : t \in {LStrip(s, SPLIT_WHITESPACE)}} : TRUE

IsDigit(c) == c \in 48..57

\* the digits and underscores int() accepts after the sign: digits, with
\* single underscores between digits only
DigitsOk(s) ==
    /\ s # <<>>
    /\ \A i \in 1..Len(s) : IsDigit(s[i]) \/ s[i] = 95
    /\ s[1] # 95 /\ s[Len(s)] # 95
    /\ \A i \in 1..(Len(s) - 1) : ~(s[i] = 95 /\ s[i + 1] = 95)

RECURSIVE DigitsVal(_)
DigitsVal(s) ==
    IF s = <<>> THEN 0
    ELSE IF s[Len(s)] = 95 THEN DigitsVal(SubSeq(s, 1, Len(s) - 1))
    ELSE 10 * DigitsVal(SubSeq(s, 1, Len(s) - 1)) + (s[Len(s)] - 48)

Unsigned(s) ==
    LET t == RStrip(LStrip(s, INT_WHITESPACE), INT_WHITESPACE)
    IN  IF t # <<>> /\ t[1] \in {43, 45} THEN Tail(t) ELSE t

\* int(s) returns a number (otherwise it raises ValueError)
IntOk(s) == DigitsOk(Unsigned(s))

\* int(s)
IntVal(s) ==
    LET t == LStrip(s, INT_WHITESPACE)
    IN  IF t # <<>> /\ t[1] = 45 THEN 0 - DigitsVal(Unsigned(s)) ELSE DigitsVal(Unsigned(s))

RECURSIVE SumOrd(_)
SumOrd(s) == IF s = <<>> THEN 0 ELSE s[1] + SumOrd(Tail(s))

\* a variant of calculate_hash: the factor 100
calculate_hash_Times100(string) == (SumOrd(string) * 100) % MAX_VALUE

calculate_hash(string) == (SumOrd(string) * 1000) % MAX_VALUE

\* parse_number: "whitespace", "ValueError" or the number
parse_number_fault(string_number) ==
    IF \E i \in 1..Len(string_number) : string_number[i] = SPACE THEN "ServerSyntaxError"
    ELSE IF ~IntOk(string_number) THEN "ValueError"
    ELSE "none"

parse_number(string_number) == IntVal(string_number)

\* parse_client_ok raises ServerSyntaxError (whatever was raised inside it)
parse_client_ok_fault(client_ok) ==
    LET parts == Split(client_ok, 2)
    IN  \/ Len(parts) # 3
        \/ parts[1] # CLIENT_OK
        \/ parse_number_fault(parts[2]) # "none"
        \/ parse_number_fault(parts[3]) # "none"

parse_client_ok(client_ok) ==
    LET parts == Split(client_ok, 2)
    IN  <<parse_number(parts[2]), parse_number(parts[3])>>

---------------------------------------------------------------------------
(* The call stack *)

\* the value None of a plain return, and of a message or position not yet
\* assigned: a sequence that is no message and no position
None == <<-1>>

Top == stack[Len(stack)]

At(f, p) == stack # <<>> /\ Top.fn = f /\ Top.pc = p

\* call function frame f; the caller resumes at its label cont
Call(caller, cont, f) ==
    stack' = SubSeq(stack, 1, Len(stack) - 1) \o <<[caller EXCEPT !.pc = cont], f>>

\* return value v to the caller
Return(v) ==
    /\ stack' = SubSeq(stack, 1, Len(stack) - 1)
    /\ ret' = v

Goto(frame) == stack' = SubSeq(stack, 1, Len(stack) - 1) \o <<frame>>

\* raise e: no function below run has an except clause that lets the
\* session continue, so control unwinds to the try statement of run
Raise(e) ==
    /\ stack' = <<[fn |-> "run", pc |-> "except"]>>
    /\ exc' = e

\* send_message
send_message(message) == sent' = Append(sent, message)

GetMessageFrame(max_length) ==
    [fn |-> "get_message", pc |-> "loop", max_length |-> max_length]

---------------------------------------------------------------------------
(* parse_buffer and get_message *)

\* parse_buffer finds "\a\b" (get_message calls it only when it does)
parse_buffer_msg(buf) == Partition(buf, TERMINATOR)[1]

\* a variant of parse_buffer_rest: the message is left in the buffer
parse_buffer_rest_Whole(buf) == buf

parse_buffer_rest(buf) == Partition(buf, TERMINATOR)[3]

\* the test of lines 105-106
MessageTooLong(buf, max_length) ==
    LET remainder == max_length - Len(buf)
    IN  \/ (Contains(buf, <<BEL>>) /\ remainder <= 0)
        \/ (~Contains(buf, <<BEL>>) /\ remainder <= 0)

\* the loop of get_message waits for a message that does not fit
GetMessage_TooLong ==
    /\ At("get_message", "loop")
    /\ ~Contains(buffer, TERMINATOR)
    /\ MessageTooLong(buffer, Top.max_length)
    /\ Raise("ServerSyntaxError")
    /\ consumed' = consumed + 1
    /\ UNCHANGED <<ret, buffer, sent, timeout, closed, wire, client, other>>

\* connection.recv(128) returns between 1 and 128 of the bytes that arrived
GetMessage_Recv ==
    /\ At("get_message", "loop")
    /\ ~Contains(buffer, TERMINATOR)
    /\ ~MessageTooLong(buffer, Top.max_length)
    /\ \E n \in 1..Min(RECV_SIZE, Len(wire)) :
         LET raw_data == SubSeq(wire, 1, n)
         IN  /\ wire' = SubSeq(wire, n + 1, Len(wire))
             /\ IF IsAscii(raw_data)
                THEN /\ buffer' = buffer \o raw_data
                     /\ UNCHANGED <<stack, exc>>
                ELSE /\ Raise("UnicodeDecodeError")
                     /\ UNCHANGED buffer
    /\ UNCHANGED <<ret, sent, timeout, closed, consumed, client, other>>

\* connection.recv raises socket.timeout: nothing arrived in time
GetMessage_Timeout ==
    /\ At("get_message", "loop")
    /\ ~Contains(buffer, TERMINATOR)
    /\ ~MessageTooLong(buffer, Top.max_length)
    /\ wire = <<>>
    /\ ~client.eof
    /\ Raise("timeout")
    /\ UNCHANGED <<ret, buffer, sent, timeout, closed, consumed, wire, client, other>>

\* connection.recv returns b"" at once: the client closed its side and all
\* it sent was read.  len(raw_data) > 0 is false, and the loop starts again
\* with the same buffer.
GetMessage_RecvNothing ==
    /\ At("get_message", "loop")
    /\ ~Contains(buffer, TERMINATOR)
    /\ ~MessageTooLong(buffer, Top.max_length)
    /\ wire = <<>>
    /\ client.eof
    /\ UNCHANGED vars

\* a variant of ContentTooLong: the bound counts the terminator
ContentTooLong_WithTerminator(msg, max_length) == Len(msg) > max_length

\* the test of line 125
ContentTooLong(msg, max_length) == Len(msg) > max_length - 2

\* the function the message of the active get_message goes to: the caller of
\* the outermost of the calls get_message made of itself (line 121)
RECURSIVE Receiver(_)
Receiver(i) == IF stack[i].fn = "get_message" THEN Receiver(i - 1) ELSE stack[i].fn

\* RECHARGING, and the FULL POWER that recharging waits for
IsRechargeToken(msg) ==
    \/ msg = CLIENT_RECHARGING
    \/ msg = CLIENT_FULL_POWER /\ Receiver(Len(stack)) = "recharging"

\* lines 117-130: a complete message is in the buffer
GetMessage_Parse ==
    /\ At("get_message", "loop")
    /\ Contains(buffer, TERMINATOR)
    /\ LET msg == parse_buffer_msg(buffer)
       IN  /\ buffer' = parse_buffer_rest(buffer)
           /\ IF msg = CLIENT_RECHARGING
              THEN /\ Call(Top, "recharged", [fn |-> "recharging", pc |-> "start"])
                   /\ UNCHANGED <<ret, exc>>
              ELSE IF ContentTooLong(msg, Top.max_length)
              THEN /\ Raise("ServerSyntaxError")
                   /\ UNCHANGED ret
              ELSE /\ Return(msg)
                   /\ UNCHANGED exc
           /\ consumed' = IF IsRechargeToken(msg) THEN consumed ELSE consumed + 1
    /\ UNCHANGED <<sent, timeout, closed, wire, client, other>>

\* line 121, after recharging returned: return self.get_message(max_length)
GetMessage_Again ==
    /\ At("get_message", "recharged")
    /\ Call(Top, "return", GetMessageFrame(Top.max_length))
    /\ UNCHANGED <<ret, exc, buffer, sent, timeout, closed, consumed, wire, client, other>>

GetMessage_Return ==
    /\ At("get_message", "return")
    /\ Return(ret)
    /\ UNCHANGED <<exc, buffer, sent, timeout, closed, consumed, wire, client, other>>

---------------------------------------------------------------------------
(* recharging *)

Recharging_Start ==
    /\ At("recharging", "start")
    /\ timeout' = TIMEOUT_RECHARGING
    /\ Call(Top, "msg", GetMessageFrame(CLIENT_FULL_POWER_MAX_LENGTH))
    /\ UNCHANGED <<ret, exc, buffer, sent, closed, consumed, wire, client, other>>

Recharging_Msg ==
    /\ At("recharging", "msg")
    /\ IF ret = CLIENT_FULL_POWER
       THEN /\ timeout' = TIMEOUT
            /\ Return(None)
            /\ UNCHANGED exc
       ELSE /\ Raise("ServerLogicError")
            /\ UNCHANGED <<ret, timeout>>
    /\ UNCHANGED <<buffer, sent, closed, consumed, wire, client, other>>

---------------------------------------------------------------------------
(* authenticate *)

\* a variant of CodeMatches: every number is accepted
CodeMatches_Any(client_code, client_confirmation) == client_confirmation >= 0

\* the test of line 171
CodeMatches(client_code, client_confirmation) == client_code = client_confirmation

Authenticate_Start ==
    /\ At("authenticate", "start")
    /\ Call(Top, "username", GetMessageFrame(CLIENT_USERNAME_MAX_LENGTH))
    /\ UNCHANGED <<ret, exc, buffer, sent, timeout, closed, consumed, wire, client, other>>

Authenticate_Username ==
    /\ At("authenticate", "username")
    /\ LET username      == ret
           username_hash == calculate_hash(username)
           server_code   == (username_hash + SERVER_KEY) % MAX_VALUE
           client_code   == (username_hash + CLIENT_KEY) % MAX_VALUE
       IN  /\ send_message(ToString(server_code))
           /\ Call([Top EXCEPT !.username = username, !.client_code = client_code],
                   "confirmation",
                   GetMessageFrame(CLIENT_CONFIRMATION_MAX_LENGTH))
    /\ UNCHANGED <<ret, exc, buffer, timeout, closed, consumed, wire, client, other>>

Authenticate_Confirmation ==
    /\ At("authenticate", "confirmation")
    /\ IF parse_number_fault(ret) # "none"
       THEN /\ Raise(parse_number_fault(ret))
            /\ UNCHANGED <<ret, sent>>
       ELSE LET client_confirmation == parse_number(ret)
            IN  IF CodeMatches(Top.client_code, client_confirmation)
                THEN /\ send_message(SERVER_OK)
                     /\ Return(None)
                     /\ UNCHANGED exc
                ELSE /\ Raise("ServerLoginFailed")
                     /\ UNCHANGED <<ret, sent>>
    /\ UNCHANGED <<buffer, timeout, closed, consumed, wire, client, other>>

---------------------------------------------------------------------------
(* move_forward, turn_left, turn_right *)

MoveForwardFrame(current_coords) ==
    [fn |-> "move_forward", pc |-> "loop", current_coords |-> current_coords]

\* the body of the while loop: it is entered with new_coords = current_coords
MoveForward_Send ==
    /\ At("move_forward", "loop")
    /\ send_message(SERVER_MOVE)
    /\ Call(Top, "response", GetMessageFrame(CLIENT_OK_MAX_LENGTH))
    /\ UNCHANGED <<ret, exc, buffer, timeout, closed, consumed, wire, client, other>>

MoveForward_Response ==
    /\ At("move_forward", "response")
    /\ IF parse_client_ok_fault(ret)
       THEN /\ Raise("ServerSyntaxError")
            /\ UNCHANGED ret
       ELSE LET new_coords == parse_client_ok(ret)
            IN  IF Top.current_coords = new_coords
                THEN /\ Goto([Top EXCEPT !.pc = "loop"])
                     /\ UNCHANGED <<ret, exc>>
                ELSE /\ Return(new_coords)
                     /\ UNCHANGED exc
    /\ UNCHANGED <<buffer, sent, timeout, closed, consumed, wire, client, other>>

\* turn_left and turn_right: fn is "turn_left" or "turn_right"
TurnFrame(fn) == [fn |-> fn, pc |-> "start"]

\* a variant of Turn_Send: the turn returns without reading the report
Turn_Send_NoRead ==
    /\ stack # <<>>
    /\ Top.fn \in {"turn_left", "turn_right"}
    /\ Top.pc = "start"
    /\ send_message(IF Top.fn = "turn_left" THEN SERVER_TURN_LEFT ELSE SERVER_TURN_RIGHT)
    /\ Return(None)
    /\ UNCHANGED <<exc, buffer, timeout, closed, consumed, wire, client, other>>

Turn_Send ==
    /\ stack # <<>>
    /\ Top.fn \in {"turn_left", "turn_right"}
    /\ Top.pc = "start"
    /\ send_message(IF Top.fn = "turn_left" THEN SERVER_TURN_LEFT ELSE SERVER_TURN_RIGHT)
    /\ Call(Top, "response", GetMessageFrame(CLIENT_OK_MAX_LENGTH))
    /\ UNCHANGED <<ret, exc, buffer, timeout, closed, consumed, wire, client, other>>

Turn_Response ==
    /\ stack # <<>>
    /\ Top.fn \in {"turn_left", "turn_right"}
    /\ Top.pc = "response"
    /\ IF parse_client_ok_fault(ret)
       THEN /\ Raise("ServerSyntaxError")
            /\ UNCHANGED ret
       ELSE /\ Return(parse_client_ok(ret))
            /\ UNCHANGED exc
    /\ UNCHANGED <<buffer, sent, timeout, closed, consumed, wire, client, other>>

---------------------------------------------------------------------------
(* get_direction_to_dest, turn_to_direction *)

\* a variant of get_direction_to_dest: the y coordinate is compared first
get_direction_to_dest_YFirst(current, destination) ==
    IF destination[2] > current[2] THEN UP
    ELSE IF destination[2] < current[2] THEN DOWN
    ELSE IF destination[1] > current[1] THEN RIGHT
    ELSE LEFT

get_direction_to_dest(current, destination) ==
    IF destination[1] > current[1] THEN RIGHT
    ELSE IF destination[1] < current[1] THEN LEFT
    ELSE IF destination[2] > current[2] THEN UP
    ELSE DOWN

\* a variant of TurnCalls: the two turns from DOWN exchanged
TurnCalls_DownSwapped(direction, direction_to_dest) ==
    IF direction = direction_to_dest THEN <<>>
    ELSE IF \/ (direction > 0 /\ direction_to_dest > 0)
            \/ (direction < 0 /\ direction_to_dest < 0)
         THEN <<"turn_left", "turn_left">>
    ELSE IF direction = UP
         THEN IF direction_to_dest = LEFT THEN <<"turn_left">> ELSE <<"turn_right">>
    ELSE IF direction = DOWN
         THEN IF direction_to_dest = LEFT THEN <<"turn_left">> ELSE <<"turn_right">>
    ELSE IF direction = RIGHT
         THEN IF direction_to_dest = UP THEN <<"turn_left">> ELSE <<"turn_right">>
    ELSE IF direction = LEFT
         THEN IF direction_to_dest = UP THEN <<"turn_right">> ELSE <<"turn_left">>
    ELSE <<>>

\* the calls turn_to_direction makes, in order
TurnCalls(direction, direction_to_dest) ==
    IF direction = direction_to_dest THEN <<>>
    ELSE IF \/ (direction > 0 /\ direction_to_dest > 0)
            \/ (direction < 0 /\ direction_to_dest < 0)
         THEN <<"turn_left", "turn_left">>
    ELSE IF direction = UP
         THEN IF direction_to_dest = LEFT THEN <<"turn_left">> ELSE <<"turn_right">>
    ELSE IF direction = DOWN
         THEN IF direction_to_dest = LEFT THEN <<"turn_right">> ELSE <<"turn_left">>
    ELSE IF direction = RIGHT
         THEN IF direction_to_dest = UP THEN <<"turn_left">> ELSE <<"turn_right">>
    ELSE IF direction = LEFT
         THEN IF direction_to_dest = UP THEN <<"turn_right">> ELSE <<"turn_left">>
    ELSE <<>>

TurnToDirectionFrame(direction, direction_to_dest) ==
    [fn |-> "turn_to_direction", pc |-> "turn",
     direction_to_dest |-> direction_to_dest,
     calls |-> TurnCalls(direction, direction_to_dest)]

\* the next call of turn_left or turn_right, or the return (ret holds
\* sequences: the direction returned is its one element)
TurnToDirection_Turn ==
    /\ At("turn_to_direction", "turn")
    /\ IF Top.calls # <<>>
       THEN /\ Call([Top EXCEPT !.calls = Tail(Top.calls)], "turn", TurnFrame(Head(Top.calls)))
            /\ UNCHANGED ret
       ELSE Return(<<Top.direction_to_dest>>)
    /\ UNCHANGED <<exc, buffer, sent, timeout, closed, consumed, wire, client, other>>

---------------------------------------------------------------------------
(* find_and_search_square *)

SearchSquareFrame(start_direction) ==
    [fn |-> "search_square", pc |-> "start", start_direction |-> start_direction,
     coords |-> DESTINATION_SQUARE, direct |-> 0, row |-> -2, i |-> -2]

FindAndSearchSquare_Start ==
    /\ At("find_and_search_square", "start")
    /\ send_message(SERVER_TURN_LEFT)
    /\ Call(Top, "start_coords", GetMessageFrame(CLIENT_OK_MAX_LENGTH))
    /\ UNCHANGED <<ret, exc, buffer, timeout, closed, consumed, wire, client, other>>

FindAndSearchSquare_StartCoords ==
    /\ At("find_and_search_square", "start_coords")
    /\ IF parse_client_ok_fault(ret)
       THEN /\ Raise("ServerSyntaxError")
       ELSE /\ Call([Top EXCEPT !.start_coords = parse_client_ok(ret)], "first_move",
                    MoveForwardFrame(parse_client_ok(ret)))
            /\ UNCHANGED exc
    /\ UNCHANGED <<ret, buffer, sent, timeout, closed, consumed, wire, client, other>>

\* the while loop of lines 280-283, and the call of search_square after it
FindAndSearchSquare_While(frame) ==
    IF frame.current_coords # DESTINATION_SQUARE
    THEN Call(frame, "turned",
              TurnToDirectionFrame(frame.direction,
                  get_direction_to_dest(frame.current_coords, DESTINATION_SQUARE)))
    ELSE Call(frame, "searched", SearchSquareFrame(frame.direction))

FindAndSearchSquare_FirstMove ==
    /\ At("find_and_search_square", "first_move")
    /\ FindAndSearchSquare_While(
           [Top EXCEPT !.current_coords = ret,
                       !.direction = get_direction_to_dest(Top.start_coords, ret)])
    /\ UNCHANGED <<ret, exc, buffer, sent, timeout, closed, consumed, wire, client, other>>

FindAndSearchSquare_Turned ==
    /\ At("find_and_search_square", "turned")
    /\ Call([Top EXCEPT !.direction = ret[1]], "moved", MoveForwardFrame(Top.current_coords))
    /\ UNCHANGED <<ret, exc, buffer, sent, timeout, closed, consumed, wire, client, other>>

FindAndSearchSquare_Moved ==
    /\ At("find_and_search_square", "moved")
    /\ FindAndSearchSquare_While([Top EXCEPT !.current_coords = ret])
    /\ UNCHANGED <<ret, exc, buffer, sent, timeout, closed, consumed, wire, client, other>>

FindAndSearchSquare_Return ==
    /\ At("find_and_search_square", "searched")
    /\ Return(None)
    /\ UNCHANGED <<exc, buffer, sent, timeout, closed, consumed, wire, client, other>>

---------------------------------------------------------------------------
(* pick_message, search_square *)

PickMessage_Send ==
    /\ At("pick_message", "start")
    /\ send_message(SERVER_PICK_UP)
    /\ Call(Top, "response", GetMessageFrame(CLIENT_MESSAGE_MAX_LENGTH))
    /\ UNCHANGED <<ret, exc, buffer, timeout, closed, consumed, wire, client, other>>

PickMessage_Response ==
    /\ At("pick_message", "response")
    /\ Return(ret)
    /\ UNCHANGED <<exc, buffer, sent, timeout, closed, consumed, wire, client, other>>

SearchSquare_Start ==
    /\ At("search_square", "start")
    /\ Call(Top, "turned", TurnToDirectionFrame(Top.start_direction, RIGHT))
    /\ UNCHANGED <<ret, exc, buffer, sent, timeout, closed, consumed, wire, client, other>>

\* the first statement of the inner loop body: pick_message()
SearchSquare_Pick ==
    /\ stack # <<>>
    /\ Top.fn = "search_square"
    /\ Top.pc \in {"turned", "cell"}
    /\ Call(Top, "picked", [fn |-> "pick_message", pc |-> "start"])
    /\ UNCHANGED <<ret, exc, buffer, sent, timeout, closed, consumed, wire, client, other>>

\* lines 314-323 and 328: the message was found (logout and return), or the
\* move to the next cell of the row, or, after the last cell of the row, the
\* first turn of the row change
SearchSquare_Picked ==
    /\ At("search_square", "picked")
    /\ IF ret # <<>>
       THEN /\ send_message(SERVER_LOGOUT)
            /\ Return(None)
       ELSE /\ IF Top.i < 2
               THEN Call(Top, "moved", MoveForwardFrame(Top.coords))
               ELSE Call(Top, "row_turned",
                         TurnFrame(IF Top.direct = 0 THEN "turn_right" ELSE "turn_left"))
            /\ UNCHANGED <<ret, sent>>
    /\ UNCHANGED <<exc, buffer, timeout, closed, consumed, wire, client, other>>

\* line 320, and the next iteration of the inner loop
SearchSquare_Moved ==
    /\ At("search_square", "moved")
    /\ Goto([Top EXCEPT !.coords = ret, !.i = Top.i + 1, !.pc = "cell"])
    /\ UNCHANGED <<ret, exc, buffer, sent, timeout, closed, consumed, wire, client, other>>

\* lines 324 and 329
SearchSquare_RowTurned ==
    /\ At("search_square", "row_turned")
    /\ Call(Top, "row_moved", MoveForwardFrame(Top.coords))
    /\ UNCHANGED <<ret, exc, buffer, sent, timeout, closed, consumed, wire, client, other>>

\* lines 325 and 330
SearchSquare_RowMoved ==
    /\ At("search_square", "row_moved")
    /\ Call([Top EXCEPT !.coords = ret], "row_done",
            TurnFrame(IF Top.direct = 0 THEN "turn_right" ELSE "turn_left"))
    /\ UNCHANGED <<ret, exc, buffer, sent, timeout, closed, consumed, wire, client, other>>

\* a variant of SearchSquare_RowDone: direct is not changed
SearchSquare_RowDone_NoToggle ==
    /\ At("search_square", "row_done")
    /\ IF Top.row < 2
       THEN /\ Goto([Top EXCEPT !.row = Top.row + 1, !.i = -2, !.pc = "cell"])
            /\ UNCHANGED ret
       ELSE Return(None)
    /\ UNCHANGED <<exc, buffer, sent, timeout, closed, consumed, wire, client, other>>

\* lines 326 and 331, and the next iteration of the outer loop or the return
SearchSquare_RowDone ==
    /\ At("search_square", "row_done")
    /\ IF Top.row < 2
       THEN /\ Goto([Top EXCEPT !.direct = 1 - Top.direct, !.row = Top.row + 1,
                                !.i = -2, !.pc = "cell"])
            /\ UNCHANGED ret
       ELSE Return(None)
    /\ UNCHANGED <<exc, buffer, sent, timeout, closed, consumed, wire, client, other>>

---------------------------------------------------------------------------
(* run *)

Run_Authenticate ==
    /\ At("run", "start")
    /\ Call(Top, "authenticated",
            [fn |-> "authenticate", pc |-> "start", username |-> None, client_code |-> -1])
    /\ UNCHANGED <<ret, exc, buffer, sent, timeout, closed, consumed, wire, client, other>>

Run_FindAndSearchSquare ==
    /\ At("run", "authenticated")
    /\ Call(Top, "finally",
            [fn |-> "find_and_search_square", pc |-> "start",
             start_coords |-> None, current_coords |-> None, direction |-> 0])
    /\ UNCHANGED <<ret, exc, buffer, sent, timeout, closed, consumed, wire, client, other>>

\* a variant of Faults: the read timeout is answered like a fault
Faults_WithTimeout ==
    {"ServerLoginFailed", "ServerSyntaxError", "ServerLogicError", "timeout"}

\* the exceptions whose except clause sends a message, and the message
Faults == {"ServerLoginFailed", "ServerSyntaxError", "ServerLogicError"}

\* a variant of ErrorMessage: the messages of the syntax and logic faults swapped
ErrorMessage_Swapped(e) ==
    IF e = "ServerLoginFailed" THEN SERVER_LOGIN_FAILED
    ELSE IF e = "ServerSyntaxError" THEN SERVER_LOGIC_ERROR
    ELSE SERVER_SYNTAX_ERROR

ErrorMessage(e) ==
    IF e = "ServerLoginFailed" THEN SERVER_LOGIN_FAILED
    ELSE IF e = "ServerSyntaxError" THEN SERVER_SYNTAX_ERROR
    ELSE SERVER_LOGIC_ERROR

\* the except clauses: the three faults send their message, socket.timeout
\* sends nothing, any other exception matches no clause
Run_Except ==
    /\ At("run", "except")
    /\ IF exc \in Faults THEN send_message(ErrorMessage(exc)) ELSE UNCHANGED sent
    /\ Goto([Top EXCEPT !.pc = "finally"])
    /\ UNCHANGED <<ret, exc, buffer, timeout, closed, consumed, wire, client, other>>

\* the finally clause; the thread ends
Run_Finally ==
    /\ At("run", "finally")
    /\ closed' = closed + 1
    /\ stack' = <<>>
    /\ UNCHANGED <<ret, exc, buffer, sent, timeout, wire, client, consumed, other>>

ServerNext ==
    \/ GetMessage_TooLong \/ GetMessage_Recv \/ GetMessage_Timeout
    \/ GetMessage_RecvNothing
    \/ GetMessage_Parse \/ GetMessage_Again \/ GetMessage_Return
    \/ Recharging_Start \/ Recharging_Msg
    \/ Authenticate_Start \/ Authenticate_Username \/ Authenticate_Confirmation
    \/ MoveForward_Send \/ MoveForward_Response
    \/ Turn_Send \/ Turn_Response
    \/ TurnToDirection_Turn
    \/ FindAndSearchSquare_Start \/ FindAndSearchSquare_StartCoords
    \/ FindAndSearchSquare_FirstMove \/ FindAndSearchSquare_Turned
    \/ FindAndSearchSquare_Moved \/ FindAndSearchSquare_Return
    \/ PickMessage_Send \/ PickMessage_Response
    \/ SearchSquare_Start \/ SearchSquare_Pick \/ SearchSquare_Picked
    \/ SearchSquare_Moved \/ SearchSquare_RowTurned \/ SearchSquare_RowMoved
    \/ SearchSquare_RowDone
    \/ Run_Authenticate \/ Run_FindAndSearchSquare \/ Run_Except \/ Run_Finally

---------------------------------------------------------------------------
(* The client: a robot that follows the protocol, and that may also send   *)
(* messages the protocol does not expect                                   *)

\* bounds of the client's behaviour
MaxExtras      == 2     \* messages outside the protocol a client sends
MaxRecharge    == 4     \* RECHARGING / FULL POWER messages a client sends
MaxBlocks      == 1     \* moves of the robot that an obstacle blocks
MaxUsernameLen == 18    \* length of the usernames
MaxAnswers     == 6     \* commands answered by a client that also sends extras
MaxCommands    == 90    \* commands answered by a client that follows the protocol

RECURSIVE Rep(_, _)
Rep(c, n) == IF n = 0 THEN <<>> ELSE <<c>> \o Rep(c, n - 1)

\* decimal digits of a natural number, and of an integer
RECURSIVE DecNat(_)
DecNat(n) == IF n < 10 THEN <<48 + n>> ELSE DecNat(n \div 10) \o <<48 + (n % 10)>>

Dec(n) == IF n < 0 THEN <<45>> \o DecNat(0 - n) ELSE DecNat(n)

\* the hash of the protocol, as a client computes it
RECURSIVE ProtocolHash(_)
ProtocolHash(u) ==
    IF u = <<>> THEN 0 ELSE (ProtocolHash(Tail(u)) + u[1] * 1000) % 65536

Framed(m) == m \o TERMINATOR

OkMessage(pos) == CLIENT_OK \o <<SPACE>> \o Dec(pos[1]) \o <<SPACE>> \o Dec(pos[2])

\* "ab", "Mnau", "abc", "1 2", "12345", "OK 0 0"
User      == <<97, 98>>
Mnau      == <<77, 110, 97, 117>>
Letters   == <<97, 98, 99>>
Spaced    == <<49, 32, 50>>
WrongCode == <<49, 50, 51, 52, 53>>
OkOrigin  == <<79, 75, 32, 48, 32, 48>>

Usernames ==
    {Rep(c, n) : c \in {97, 122}, n \in 0..MaxUsernameLen}
        \cup {User, Mnau, CLIENT_RECHARGING, CLIENT_FULL_POWER}

\* RECHARGING and FULL POWER sent at once
RechargePair == Framed(CLIENT_RECHARGING) \o Framed(CLIENT_FULL_POWER)

\* what a client may send outside the protocol: whole messages, and bytes
\* with no terminator
Catalogue(cat) ==
    IF cat = "recharge"
    THEN {Framed(CLIENT_RECHARGING), Framed(CLIENT_FULL_POWER), RechargePair}
    ELSE {Framed(CLIENT_RECHARGING), Framed(CLIENT_FULL_POWER), RechargePair,
          Framed(<<>>), Framed(Letters), Framed(Spaced), Framed(WrongCode),
          Framed(OkOrigin), Framed(Rep(97, 11)), Rep(97, 11), Framed(<<200>>)}

\* the robot turns and moves on the grid: +x is RIGHT, +y is UP
LeftOf(d)  == IF d = UP THEN LEFT ELSE IF d = LEFT THEN DOWN
              ELSE IF d = DOWN THEN RIGHT ELSE UP
RightOf(d) == IF d = UP THEN RIGHT ELSE IF d = RIGHT THEN DOWN
              ELSE IF d = DOWN THEN LEFT ELSE UP
Ahead(pos, d) ==
    IF d = UP THEN <<pos[1], pos[2] + 1>>
    ELSE IF d = DOWN THEN <<pos[1], pos[2] - 1>>
    ELSE IF d = LEFT THEN <<pos[1] - 1, pos[2]>>
    ELSE <<pos[1] + 1, pos[2]>>

Scenario(uname, pos, dir, secret, extras, cat, blocks, answers) ==
    [uname |-> uname, pos |-> pos, dir |-> dir, secret |-> secret,
     extras |-> extras, cat |-> cat, blocks |-> blocks, answers |-> answers,
     logged |-> FALSE, answered |-> 0, recharging |-> FALSE,
     conform |-> TRUE, plain |-> TRUE, hangup |-> FALSE, eof |-> FALSE,
     polled |-> <<>>, start |-> pos]

\* where the robots that the navigator has to bring to the square start:
\* on each side of DESTINATION_SQUARE, in line with it, and on it
NavStarts == {<<x, y>> : x \in {-4, -2, 0}, y \in {0, 2, 4}}

\* the clients: the message is on the first cell of the sweep, next to which
\* the robot starts, or it is further away, or there is none (<<>>)
Clients ==
    {Scenario(User, <<-3, 2>>, RIGHT, <<-2, 2>>, MaxExtras, "any", 0, MaxAnswers),
     Scenario(User, <<-3, 2>>, RIGHT, <<-2, 2>>, MaxRecharge, "recharge", 0, MaxAnswers)}
    \cup {Scenario(u, <<-3, 2>>, RIGHT, <<-2, 2>>, 0, "any", 0, MaxAnswers) : u \in Usernames}
    \cup {Scenario(User, <<-1, 3>>, d, c, 0, "any", MaxBlocks, MaxCommands) :
              d \in {UP, DOWN, LEFT, RIGHT}, c \in {<<>>, <<1, 1>>}}
    \cup {[Scenario(User, <<-3, 2>>, RIGHT, <<-1, 2>>, 0, "any", 0, MaxCommands)
              EXCEPT !.hangup = TRUE]}
    \cup {Scenario(User, p, d, <<-2, 2>>, 0, "any", MaxBlocks, MaxCommands) :
              p \in NavStarts, d \in {UP, DOWN, LEFT, RIGHT}}

\* the client sends its username
Client_Login ==
    /\ ~client.logged
    /\ ~client.eof
    /\ stack # <<>>
    /\ wire' = wire \o Framed(client.uname)
    /\ client' = [client EXCEPT !.logged = TRUE,
                                !.conform = client.conform /\ ~client.recharging]
    /\ UNCHANGED <<stack, ret, exc, buffer, sent, timeout, closed, consumed, other>>

Literals ==
    {SERVER_MOVE, SERVER_TURN_LEFT, SERVER_TURN_RIGHT, SERVER_PICK_UP, SERVER_LOGOUT,
     SERVER_OK, SERVER_LOGIN_FAILED, SERVER_SYNTAX_ERROR, SERVER_LOGIC_ERROR}

\* the client reads the next message of the server and answers it as the
\* protocol asks: the confirmation code, or the robot's position after the
\* command, or the message on the robot's cell
Client_Receive ==
    /\ client.logged
    /\ ~client.eof
    /\ stack # <<>>
    /\ client.answered < Len(sent)
    /\ client.answered < client.answers
    /\ LET cmd == sent[client.answered + 1]
           c   == [client EXCEPT !.answered = client.answered + 1]
       IN  IF cmd \in {SERVER_OK, SERVER_LOGOUT, SERVER_LOGIN_FAILED,
                       SERVER_SYNTAX_ERROR, SERVER_LOGIC_ERROR}
           THEN /\ client' = c
                /\ UNCHANGED wire
           ELSE \E blocked \in {FALSE} \cup {b \in {TRUE} : client.blocks > 0 /\ cmd = SERVER_MOVE} :
                  LET r == IF cmd = SERVER_MOVE /\ ~blocked
                              THEN [c EXCEPT !.pos = Ahead(client.pos, client.dir)]
                           ELSE IF cmd = SERVER_MOVE
                              THEN [c EXCEPT !.blocks = client.blocks - 1]
                           ELSE IF cmd = SERVER_TURN_LEFT
                              THEN [c EXCEPT !.dir = LeftOf(client.dir)]
                           ELSE IF cmd = SERVER_TURN_RIGHT
                              THEN [c EXCEPT !.dir = RightOf(client.dir)]
                           ELSE IF cmd = SERVER_PICK_UP
                              THEN [c EXCEPT !.polled = Append(client.polled, client.pos)]
                           ELSE c
                      reply == IF cmd = SERVER_PICK_UP
                                  THEN (IF client.pos = client.secret THEN Letters ELSE <<>>)
                               ELSE IF cmd \in Literals THEN OkMessage(r.pos)
                               ELSE Dec((ProtocolHash(client.uname) + 45328) % 65536)
                  IN  /\ client' = [r EXCEPT !.conform = client.conform /\ ~client.recharging]
                      /\ wire' = wire \o Framed(reply)
    /\ UNCHANGED <<stack, ret, exc, buffer, sent, timeout, closed, consumed, other>>

\* the client sends a message outside the protocol, once the server has read
\* all it sent before.  RECHARGING, and FULL POWER after it, between two
\* messages are within the protocol.
Client_Extra ==
    /\ client.extras > 0
    /\ ~client.eof
    /\ stack # <<>>
    /\ wire = <<>>
    /\ \E m \in Catalogue(client.cat) :
         /\ wire' = wire \o m
         /\ client' =
              IF m = Framed(CLIENT_RECHARGING) /\ ~client.recharging
              THEN [client EXCEPT !.extras = client.extras - 1, !.plain = FALSE,
                                  !.recharging = TRUE]
              ELSE IF m = RechargePair /\ ~client.recharging
              THEN [client EXCEPT !.extras = client.extras - 1, !.plain = FALSE]
              ELSE IF m = Framed(CLIENT_FULL_POWER) /\ client.recharging
              THEN [client EXCEPT !.extras = client.extras - 1, !.plain = FALSE,
                                  !.recharging = FALSE]
              ELSE [client EXCEPT !.extras = client.extras - 1, !.plain = FALSE,
                                  !.conform = FALSE]
    /\ UNCHANGED <<stack, ret, exc, buffer, sent, timeout, closed, consumed, other>>

\* the client closes its side of the connection: it sends nothing more, and
\* recv returns no bytes once the server has read what was sent
Client_Close ==
    /\ client.hangup
    /\ ~client.eof
    /\ stack # <<>>
    /\ client' = [client EXCEPT !.eof = TRUE]
    /\ UNCHANGED <<stack, ret, exc, buffer, sent, timeout, closed, consumed, wire, other>>

ClientNext == Client_Login \/ Client_Receive \/ Client_Extra \/ Client_Close

---------------------------------------------------------------------------
(* The session *)

\* Server.start: settimeout(TIMEOUT), ClientConnection(...), start()
Init ==
    /\ stack = <<[fn |-> "run", pc |-> "start"]>>
    /\ ret = None
    /\ exc = "none"
    /\ buffer = <<>>
    /\ sent = <<>>
    /\ timeout = TIMEOUT
    /\ closed = 0
    /\ wire = <<>>
    /\ client \in Clients
    /\ consumed = 0
    /\ other = <<>>

Next == ServerNext \/ ClientNext

Spec == Init /\ [][Next]_vars

---------------------------------------------------------------------------
(* Concurrent sessions: Server.start makes one ClientConnection, a thread, *)
(* for every connection it accepts                                         *)

\* what belongs to one session: the call stack of its thread with the locals
\* (position, orientation), self.buffer, self.connection with its timeout
\* and its peer, and the history kept of it
SessionState ==
    [stack |-> stack, ret |-> ret, exc |-> exc, buffer |-> buffer, sent |-> sent,
     timeout |-> timeout, closed |-> closed, wire |-> wire, client |-> client,
     consumed |-> consumed]

\* the session of a connection just accepted, with client c as its peer
Started(c) ==
    [stack |-> <<[fn |-> "run", pc |-> "start"]>>, ret |-> None, exc |-> "none",
     buffer |-> <<>>, sent |-> <<>>, timeout |-> TIMEOUT, closed |-> 0,
     wire |-> <<>>, client |-> c, consumed |-> 0]

\* a variant of ResumedBuffer: one buffer for all the sessions (an attribute
\* of the class, not of the object)
ResumedBuffer_Shared(session) == buffer

\* self.buffer of a session: an attribute of its own object
ResumedBuffer(session) == session.buffer

\* the scheduler stops the running thread, after any of its steps, and runs
\* the thread of the next session
Switch ==
    /\ other # <<>>
    /\ LET session == Head(other)
       IN  /\ stack' = session.stack
           /\ ret' = session.ret
           /\ exc' = session.exc
           /\ buffer' = ResumedBuffer(session)
           /\ sent' = session.sent
           /\ timeout' = session.timeout
           /\ closed' = session.closed
           /\ wire' = session.wire
           /\ client' = session.client
           /\ consumed' = session.consumed
    /\ other' = Tail(other) \o <<SessionState>>

\* the clients of the first connection, and the client of the second one,
\* which sends its username and then nothing
SessionClients ==
    {Scenario(User, <<-3, 2>>, RIGHT, <<-2, 2>>, 2, "recharge", 0, MaxAnswers),
     Scenario(Rep(97, CLIENT_USERNAME_MAX_LENGTH), <<-3, 2>>, RIGHT, <<-2, 2>>, 0, "any", 0, 0),
     Scenario(User, <<-1, 3>>, UP, <<1, 1>>, 0, "any", 0, MaxCommands),
     [Scenario(User, <<-3, 2>>, RIGHT, <<-1, 2>>, 0, "any", 0, MaxCommands)
        EXCEPT !.hangup = TRUE]}

SecondClient == Scenario(Mnau, <<0, 0>>, UP, <<>>, 0, "any", 0, 0)

SessionsInit ==
    /\ stack = <<[fn |-> "run", pc |-> "start"]>>
    /\ ret = None
    /\ exc = "none"
    /\ buffer = <<>>
    /\ sent = <<>>
    /\ timeout = TIMEOUT
    /\ closed = 0
    /\ wire = <<>>
    /\ client \in SessionClients
    /\ consumed = 0
    /\ other = <<Started(SecondClient)>>

SessionsNext == ServerNext \/ ClientNext \/ Switch

Sessions == SessionsInit /\ [][SessionsNext]_vars

---------------------------------------------------------------------------
(* The session thread under a fair scheduler: a thread that can take a     *)
(* step (it is not blocked in recv, and has not ended) takes one           *)

\* the robots on their way to the square, and a client for each of the other
\* paths of the session: recharging, a message too long, a sweep that finds
\* the message, a connection closed by the client
FairClients ==
    {Scenario(User, <<-3, 2>>, RIGHT, <<-2, 2>>, 1, "recharge", 0, MaxAnswers),
     Scenario(Rep(97, CLIENT_USERNAME_MAX_LENGTH), <<-3, 2>>, RIGHT, <<-2, 2>>, 0, "any", 0, 0),
     Scenario(User, <<-1, 3>>, UP, <<1, 1>>, 0, "any", 0, MaxCommands),
     [Scenario(User, <<-3, 2>>, RIGHT, <<-1, 2>>, 0, "any", 0, MaxCommands)
        EXCEPT !.hangup = TRUE]}
    \cup {Scenario(User, p, d, <<-2, 2>>, 0, "any", MaxBlocks, MaxCommands) :
              p \in NavStarts, d \in {UP, DOWN, LEFT, RIGHT}}

FairInit ==
    /\ stack = <<[fn |-> "run", pc |-> "start"]>>
    /\ ret = None
    /\ exc = "none"
    /\ buffer = <<>>
    /\ sent = <<>>
    /\ timeout = TIMEOUT
    /\ closed = 0
    /\ wire = <<>>
    /\ client \in FairClients
    /\ consumed = 0
    /\ other = <<>>

FairSpec == FairInit /\ [][Next]_vars /\ WF_vars(ServerNext)

---------------------------------------------------------------------------
(* Properties *)

Last(seq) == seq[Len(seq)]

Range(seq) == {seq[i] : i \in 1..Len(seq)}

Commands ==
    {SERVER_MOVE, SERVER_TURN_LEFT, SERVER_TURN_RIGHT, SERVER_PICK_UP, SERVER_LOGOUT}

TerminalMessages == {SERVER_LOGIN_FAILED, SERVER_SYNTAX_ERROR, SERVER_LOGIC_ERROR}

\* the session thread has ended
Ended == stack = <<>>

\* a call of recharging is active
InRecharging == \E i \in 1..Len(stack) : stack[i].fn = "recharging"

\* get_message has just returned ret to one of its callers outside the reader
ReturnedToCaller ==
    /\ stack # <<>>
    /\ \/ Top.fn = "authenticate" /\ Top.pc \in {"username", "confirmation"}
       \/ Top.fn \in {"move_forward", "turn_left", "turn_right", "pick_message"}
            /\ Top.pc = "response"
       \/ Top.fn = "find_and_search_square" /\ Top.pc = "start_coords"

\* C1: a login, syntax or logic fault makes run send its one terminal
\* message (300, 301, 302), as the last message of the session and before the
\* connection is closed; no other session sends a terminal message; the
\* connection is closed exactly once, when run ends, whatever the exit path.
C1_FaultHandling ==
    /\ closed = (IF Ended THEN 1 ELSE 0)
    /\ Cardinality({i \in 1..Len(sent) : sent[i] \in TerminalMessages}) <= 1
    /\ \A i \in 1..Len(sent) : sent[i] \in TerminalMessages => i = Len(sent)
    /\ exc \notin Faults => Range(sent) \cap TerminalMessages = {}
    /\ (Ended /\ exc = "ServerLoginFailed") => (sent # <<>> /\ Last(sent) = SERVER_LOGIN_FAILED)
    /\ (Ended /\ exc = "ServerSyntaxError") => (sent # <<>> /\ Last(sent) = SERVER_SYNTAX_ERROR)
    /\ (Ended /\ exc = "ServerLogicError") => (sent # <<>> /\ Last(sent) = SERVER_LOGIC_ERROR)

\* a fault of the navigator was reported and the connection closed
C1_Witness ==
    /\ Ended /\ closed = 1
    /\ exc = "ServerSyntaxError"
    /\ SERVER_MOVE \in Range(sent)
    /\ Last(sent) = SERVER_SYNTAX_ERROR

\* the content is not a decimal number, and has no space
NotDecimal(s) ==
    /\ s = <<>> \/ \E i \in 1..Len(s) : ~IsDigit(s[i])
    /\ \A i \in 1..Len(s) : s[i] # SPACE

\* C2: when authenticate gets a confirmation that is not a decimal number
\* (and has no space), the step it takes raises the syntax fault.
C2_NonNumericConfirmation ==
    [][(At("authenticate", "confirmation") /\ NotDecimal(ret) /\ stack' # stack)
          => exc' = "ServerSyntaxError"]_vars

\* the client sent its username and the answers of the protocol, nothing else
PlainClient(maxlen) ==
    /\ client.plain
    /\ Len(client.uname) <= maxlen
    /\ client.uname # CLIENT_RECHARGING

\* the handshake of a plain client: the server's code, then 200 OK, no fault
RoundTrip ==
    /\ exc \in {"none", "timeout"}
    /\ sent # <<>> =>
         sent[1] = ToString((ProtocolHash(client.uname) + 54621) % 65536)
    /\ Len(sent) >= 2 => sent[2] = SERVER_OK
    /\ (client.logged /\ wire = <<>> /\ buffer = <<>> /\ At("get_message", "loop"))
         => sent # <<>>

IsDecimal(s) == s # <<>> /\ \A i \in 1..Len(s) : IsDigit(s[i])

\* C4: 200 OK is sent only by the step of authenticate that gets a
\* confirmation whose number is (H + CLIENT_KEY) mod 65536, H the hash of the
\* username received; that step raises the login fault for any other decimal
\* number; and a session with a login fault has sent neither 200 OK nor a
\* command, and ends with 300 LOGIN FAILED.
C4_AuthenticationSoundness ==
    /\ [][(SERVER_OK \notin Range(sent) /\ SERVER_OK \in Range(sent'))
             => /\ At("authenticate", "confirmation")
                /\ IntOk(ret)
                /\ IntVal(ret) = (ProtocolHash(Top.username) + 45328) % 65536]_vars
    /\ [][(/\ At("authenticate", "confirmation")
           /\ IsDecimal(ret)
           /\ IntVal(ret) # (ProtocolHash(Top.username) + 45328) % 65536
           /\ stack' # stack)
             => exc' = "ServerLoginFailed"]_vars
    /\ [](exc = "ServerLoginFailed"
             => /\ Range(sent) \cap (Commands \cup {SERVER_OK}) = {}
                /\ Ended => Last(sent) = SERVER_LOGIN_FAILED)

\* a wrong number was answered with 300 LOGIN FAILED
C4_Witness ==
    /\ Ended
    /\ exc = "ServerLoginFailed"
    /\ Len(sent) = 2
    /\ sent[2] = SERVER_LOGIN_FAILED

\* C5: the message get_message returns to authenticate, move_forward,
\* turn_left, turn_right, find_and_search_square or pick_message is neither
\* RECHARGING nor FULL POWER.
C5_NoRechargeTokens ==
    ReturnedToCaller => ret \notin {CLIENT_RECHARGING, CLIENT_FULL_POWER}

\* C6: when the reader extracts RECHARGING while a call of recharging is
\* active (FULL POWER has not arrived yet), that step raises the logic fault.
C6_DoubleRecharging ==
    [][(/\ At("get_message", "loop")
        /\ Contains(buffer, TERMINATOR)
        /\ parse_buffer_msg(buffer) = CLIENT_RECHARGING
        /\ InRecharging
        /\ stack' # stack)
          => exc' = "ServerLogicError"]_vars

\* C7: a client that follows the protocol (its username fits the cap) and
\* that sends RECHARGING and then FULL POWER between its messages causes no
\* fault, however recv splits its bytes.
C7_RechargeTransparency ==
    (/\ client.conform
     /\ ~client.plain
     /\ Len(client.uname) <= CLIENT_USERNAME_MAX_LENGTH - 2
     /\ client.uname # CLIENT_RECHARGING)
        => exc \in {"none", "timeout"}

\* C8: a fault raised between RECHARGING and FULL POWER (the read timeout
\* is the recharging timeout) is the logic fault.
C8_OnlyLogicFaultInRecharge ==
    (timeout = TIMEOUT_RECHARGING /\ exc \in Faults) => exc = "ServerLogicError"

\* C9: the reader reads no more bytes once the buffer holds max_length - 1
\* bytes with no "\a" among them, or max_length bytes with a "\a" and no
\* terminator.
C9_EarlyLengthFailure ==
    [][(/\ At("get_message", "loop")
        /\ ~Contains(buffer, TERMINATOR)
        /\ \/ ~Contains(buffer, <<BEL>>) /\ Len(buffer) >= Top.max_length - 1
           \/ Contains(buffer, <<BEL>>) /\ Len(buffer) >= Top.max_length)
          => buffer' = buffer]_vars

\* the cap of the call of get_message that has just returned
ReturnedCap ==
    IF Top.fn = "authenticate" /\ Top.pc = "username" THEN CLIENT_USERNAME_MAX_LENGTH
    ELSE IF Top.fn = "authenticate" THEN CLIENT_CONFIRMATION_MAX_LENGTH
    ELSE IF Top.fn = "recharging" THEN CLIENT_FULL_POWER_MAX_LENGTH
    ELSE IF Top.fn = "pick_message" THEN CLIENT_MESSAGE_MAX_LENGTH
    ELSE IF Top.fn = "get_message" THEN Top.max_length
    ELSE CLIENT_OK_MAX_LENGTH

\* C10: the message a call get_message(max_length) has just returned, to
\* any caller, has at most max_length - 2 bytes.
C10_ReturnedLength ==
    (ReturnedToCaller \/ At("recharging", "msg") \/ At("get_message", "return"))
        => Len(ret) <= ReturnedCap - 2

\* a confirmation of 5 bytes was returned while the buffer held the next
\* message, received by the same recv
C10_Witness ==
    /\ At("authenticate", "confirmation")
    /\ Len(ret) = CLIENT_CONFIRMATION_MAX_LENGTH - 2
    /\ Contains(buffer, TERMINATOR)

\* C11 (as claimed): when get_message has returned a message to its caller,
\* the buffer holds no complete terminator.
C11_NoTerminatorAtRest ==
    ReturnedToCaller => ~Contains(buffer, TERMINATOR)

\* C11 (as amended): the message get_message returns holds no terminator and
\* is taken out of the buffer with its terminator, the buffer keeping the
\* bytes received after it (complete messages of the same recv among them);
\* and the reader takes a complete message out of the buffer before it reads
\* the stream again.
C11_BufferAtReturn ==
    /\ []((ReturnedToCaller \/ At("recharging", "msg")) => ~Contains(ret, TERMINATOR))
    /\ [][(/\ At("get_message", "loop")
           /\ Contains(buffer, TERMINATOR)
           /\ stack' # stack)
             => (wire' = wire /\ Len(buffer') < Len(buffer))]_vars
    /\ [][(At("get_message", "loop") /\ Len(stack') < Len(stack) /\ exc' = exc)
             => buffer = ret' \o TERMINATOR \o buffer']_vars

\* the first position report was returned while the buffer held the next
\* report, received by the same recv
C11_Witness ==
    /\ At("find_and_search_square", "start_coords")
    /\ ~parse_client_ok_fault(ret)
    /\ Contains(buffer, TERMINATOR)
    /\ ~parse_client_ok_fault(parse_buffer_msg(buffer))

\* C12: once a read of the stream has timed out, the session sends no
\* message (no 300, 301 or 302 either); it is in the except clause or the
\* finally clause of run, from which its next steps end it without a read;
\* and when it has ended the connection is closed.
C12_SilentTimeout ==
    /\ [][exc = "timeout" => sent' = sent]_vars
    /\ [](exc = "timeout" =>
             \/ Ended /\ closed = 1
             \/ closed = 0 /\ (At("run", "except") \/ At("run", "finally")))
    /\ []((exc = "timeout" /\ ~Ended) => ENABLED <<Run_Except \/ Run_Finally>>_vars)

\* a read of the sweep timed out: 105 GET MESSAGE is the last message sent
C12_Witness ==
    /\ Ended /\ closed = 1
    /\ exc = "timeout"
    /\ sent # <<>> /\ Last(sent) = SERVER_PICK_UP

\* the messages sent that wait for no answer: 200 OK, once the first
\* command has followed it
Unanswered == IF Len(sent) >= 3 /\ sent[2] = SERVER_OK THEN 1 ELSE 0

\* C13 (as claimed): the session takes one client message, sends one message,
\* takes one client message, and so on: the messages taken (the recharge
\* pairs left out) are as many as the messages sent, or one more.
C13_HalfDuplex ==
    /\ [](consumed - Len(sent) \in {0, 1})
    /\ [][/\ consumed' - consumed \in {0, 1}
          /\ Len(sent') - Len(sent) \in {0, 1}]_vars

\* C13 (as amended): the same, except that 200 OK is followed by the first
\* command, 103 TURN LEFT, with no client message taken in between.
C13_HalfDuplexButOk ==
    /\ [](consumed - (Len(sent) - Unanswered) \in {0, 1})
    /\ [](Len(sent) >= 3 /\ sent[2] = SERVER_OK => sent[3] = SERVER_TURN_LEFT)
    /\ [][/\ consumed' - consumed \in {0, 1}
          /\ Len(sent') - Len(sent) \in {0, 1}]_vars

\* a session that was paused by a recharge and has sent the first 102 MOVE
C13_Witness ==
    /\ ~client.plain /\ client.conform
    /\ SERVER_MOVE \in Range(sent)
    /\ consumed = Len(sent)

\* the next step of the session is a read of the stream (recv)
AboutToRead ==
    /\ At("get_message", "loop")
    /\ ~Contains(buffer, TERMINATOR)
    /\ ~MessageTooLong(buffer, Top.max_length)

\* C14: a read of the stream made while a RECHARGING received has not been
\* followed by its FULL POWER (a call of recharging is active) runs under
\* TIMEOUT_RECHARGING, and every other read under TIMEOUT.
C14_TimeoutMode ==
    AboutToRead => timeout = (IF InRecharging THEN TIMEOUT_RECHARGING ELSE TIMEOUT)

\* the cells of [-2..2] x [-2..2] in serpentine row order: east along y = 2,
\* west along y = 1, and so on
SweepCell(k) ==
    LET r == (k - 1) \div 5
        c == (k - 1) % 5
    IN  <<IF r % 2 = 0 THEN c - 2 ELSE 2 - c, 2 - r>>

\* the number of messages m sent
Count(m) == Cardinality({i \in 1..Len(sent) : sent[i] = m})

\* C15: with a robot that follows the protocol, the k-th 105 GET MESSAGE
\* finds the robot on the k-th cell of the serpentine order (so inside the
\* region, and on no cell twice); a session that ends with no message found
\* has polled 25 cells; and the first non-empty response is followed by
\* 106 LOGOUT and nothing else.
C15_SweepCoverage ==
    client.conform =>
        /\ Len(client.polled) <= Count(SERVER_PICK_UP)
        /\ Count(SERVER_PICK_UP) <= Len(client.polled) + 1
        /\ \A k \in 1..Len(client.polled) :
              /\ client.polled[k] = SweepCell(k)
              /\ client.polled[k] = client.secret => k = Len(client.polled)
        /\ (Ended /\ exc = "none" /\ SERVER_LOGOUT \notin Range(sent))
              => Count(SERVER_PICK_UP) = 25 /\ Len(client.polled) = 25
        /\ \A i \in 1..Len(sent) : sent[i] = SERVER_LOGOUT =>
              /\ i = Len(sent)
              /\ sent[i - 1] = SERVER_PICK_UP
              /\ Last(client.polled) = client.secret
        /\ (/\ client.polled # <<>>
            /\ Last(client.polled) = client.secret
            /\ Len(client.polled) = Count(SERVER_PICK_UP))
              => Last(sent) \in {SERVER_PICK_UP, SERVER_LOGOUT}

\* the sweep of a square with no message has come to its end
C15_Witness ==
    /\ client.conform
    /\ Ended /\ exc = "none"
    /\ Len(client.polled) = 25

\* C16: a step of the running session leaves the other sessions as they
\* are, and a session that is resumed finds its buffer, its call stack (with
\* position and orientation), its timeout and its connection as its last
\* step left them; so what was checked of one session alone holds of each
\* of the concurrent ones: the answer to the handshake is that of the
\* session's own username, and the connection is closed when its own run ends.
C16_SessionIsolation ==
    /\ [][\/ other' = other
          \/ /\ other # <<>>
             /\ SessionState' = Head(other)
             /\ other' = Tail(other) \o <<SessionState>>]_vars
    /\ [](PlainClient(CLIENT_USERNAME_MAX_LENGTH - 2) => RoundTrip)
    /\ [](closed = (IF Ended THEN 1 ELSE 0))

\* both sessions are under way: this one has completed its handshake while
\* the other one, whose thread is not running, waits for its confirmation
C16_Witness ==
    /\ Len(sent) >= 2 /\ sent[2] = SERVER_OK
    /\ other # <<>>
    /\ Len(Head(other).sent) = 1
    /\ Head(other).stack # <<>>
    /\ Head(other).consumed = 1

Directions == {UP, DOWN, LEFT, RIGHT}

\* the turns the claim gives for a robot that faces d and is to face t
ExpectedTurns(d, t) ==
    IF t = d THEN <<>>
    ELSE IF t = LeftOf(d) THEN <<"turn_left">>
    ELSE IF t = RightOf(d) THEN <<"turn_right">>
    ELSE <<"turn_left", "turn_left">>

\* where a robot that faces d faces after the turns
RECURSIVE AfterTurns(_, _)
AfterTurns(d, turns) ==
    IF turns = <<>> THEN d
    ELSE AfterTurns(IF Head(turns) = "turn_left" THEN LeftOf(d) ELSE RightOf(d),
                    Tail(turns))

\* C17: for each of the 16 pairs turn_to_direction makes the turns of the
\* table (none, two left, one left, one right); and with a robot that
\* follows the protocol the turns still to be made bring the robot to face
\* the target, which it faces when turn_to_direction returns the target.
C17_Turning ==
    /\ \A d \in Directions, t \in Directions :
          /\ TurnCalls(d, t) = ExpectedTurns(d, t)
          /\ AfterTurns(d, TurnCalls(d, t)) = t
    /\ (client.conform /\ At("turn_to_direction", "turn") /\ client.answered = Len(sent))
          => AfterTurns(client.dir, Top.calls) = Top.direction_to_dest
    /\ (client.conform /\ At("find_and_search_square", "turned"))
          => (ret = <<client.dir>> /\ client.answered = Len(sent))
    /\ (client.conform /\ At("search_square", "turned"))
          => (client.dir = RIGHT /\ client.answered = Len(sent))

\* the robot faced away from the target and was turned by two 103 TURN LEFT
C17_Witness ==
    /\ client.conform
    /\ At("find_and_search_square", "turned")
    /\ Len(sent) >= 6
    /\ sent[Len(sent)] = SERVER_TURN_LEFT
    /\ sent[Len(sent) - 1] = SERVER_TURN_LEFT
    /\ sent[Len(sent) - 2] = SERVER_MOVE
    /\ ret = <<client.dir>>

\* the number of moves between two cells
Abs(n) == IF n < 0 THEN 0 - n ELSE n
Distance(p, q) == Abs(p[1] - q[1]) + Abs(p[2] - q[2])

\* the navigator is at work: no 105 GET MESSAGE has been sent yet
Navigating == Count(SERVER_PICK_UP) = 0

\* the 102 MOVE that the robot has answered, by a move or blocked
MovesAnswered ==
    Cardinality({i \in 1..client.answered : sent[i] = SERVER_MOVE})

\* what the navigator does with a robot that follows the protocol, from
\* each of its starts:
\* (1) the orientation the navigator has inferred from the first position
\* change, and tracks, is the robot's orientation; (2) each move of the
\* navigator after the first one brings the robot one cell nearer to
\* (-2, 2), along x as long as x is not -2; (3) the sweep begins, and the
\* first 105 GET MESSAGE is sent, only with the robot, and its last report,
\* at (-2, 2); (4) the moves answered, the moves still to be blocked and the
\* cells still to go never add up to more than the distance of the start,
\* the blocked moves and 2 (the first move may lead away).
NavigationSteps ==
    client.conform =>
        /\ At("find_and_search_square", "moved") =>
              /\ client.pos = ret
              /\ client.dir = Top.direction
              /\ Distance(ret, DESTINATION_SQUARE)
                    = Distance(Top.current_coords, DESTINATION_SQUARE) - 1
              /\ Top.current_coords[1] # DESTINATION_SQUARE[1] => ret[2] = Top.current_coords[2]
        /\ At("find_and_search_square", "first_move") =>
              /\ client.pos = ret
              /\ client.dir = get_direction_to_dest(Top.start_coords, ret)
              /\ Distance(Top.start_coords, ret) = 1
        /\ At("search_square", "start") =>
              /\ client.pos = DESTINATION_SQUARE
              /\ client.dir = Top.start_direction
              /\ Navigating
        /\ Count(SERVER_PICK_UP) >= 1 =>
              /\ client.polled # <<>> => client.polled[1] = DESTINATION_SQUARE
              /\ client.polled = <<>> => client.pos = DESTINATION_SQUARE
        /\ Navigating =>
              MovesAnswered + client.blocks + Distance(client.pos, DESTINATION_SQUARE)
                  <= 2 + MaxBlocks + Distance(client.start, DESTINATION_SQUARE)

\* the sweep has not begun
BeforeSweep == Navigating /\ \A i \in 1..Len(stack) : stack[i].fn # "search_square"

\* the navigator has brought the robot to (-2, 2) and the sweep begins
Arrived == At("search_square", "start") /\ client.pos = DESTINATION_SQUARE

\* the session has been given up: a timeout (the robot did not answer in
\* time) or a fault, or the client has closed the connection
GivenUp == exc # "none" \/ client.eof

\* C18: with a robot that moves one cell ahead on each MOVE that is not
\* blocked, and is blocked finitely often, from each start and orientation:
\* the navigator infers the orientation from the first position change,
\* corrects x before y, and sends the first 105 GET MESSAGE only with the
\* last report at (-2, 2) (NavigationSteps, in every state); and under a fair
\* scheduler, a session that is not given up eventually has the robot at
\* (-2, 2) and begins the sweep.
C18_Navigation ==
    /\ []NavigationSteps
    /\ (client.conform /\ BeforeSweep) ~> (Arrived \/ GivenUp)

\* a robot that started two cells east and two cells south of (-2, 2), and
\* was blocked on its way, has been brought to (-2, 2): the sweep begins
C18_Witness ==
    /\ client.conform
    /\ client.start = <<0, 0>>
    /\ client.blocks < MaxBlocks
    /\ At("search_square", "start")

Region == {<<x, y>> : x \in -2..2, y \in -2..2}

\* C19: with a robot that follows the protocol on a square with no message,
\* the 25th 105 GET MESSAGE is the last message of the session, which ends on
\* its (empty) answer with no further read; and the robot, once in the
\* square, is never moved out of it.
C19_EndOfEmptySweep ==
    (client.conform /\ client.secret \notin Region) =>
        /\ Count(SERVER_PICK_UP) = 25 => Last(sent) = SERVER_PICK_UP
        /\ (Len(client.polled) = 25 /\ wire = <<>> /\ buffer = <<>>) => ~AboutToRead
        /\ client.polled # <<>> => client.pos \in Region

\* C20: once the client has closed its side of the connection, a session
\* that has not ended can take a step that changes its state (it reads what
\* is left, raises a fault or a timeout, or goes on to its end): it is in
\* no state that it cannot leave.
C20_EndOfStream ==
    (client.eof /\ ~Ended) => ENABLED <<ServerNext>>_vars

====
